---- MODULE Spec2Model ----
(***************************************************************************)
(* State-machine model of main.py: the AniList console client.             *)
(*                                                                         *)
(* Python values are modelled as tagged records so that None, integers,    *)
(* strings, lists and dicts can be told apart the way the interpreter      *)
(* tells them apart.  An evaluation that may raise yields a record         *)
(* [exc, val]: exc = "" when it completes, else the exception class.       *)
(***************************************************************************)
EXTENDS Integers, Sequences, FiniteSets, TLC

VARIABLES
  today,           \* the wall-clock date of the run (environment): [year, month]
  pc,              \* position of main_menu
  trending_anime,  \* main_menu local, line 221
  seasonal_anime,  \* main_menu local, line 222
  choice,          \* main_menu local, line 234
  search_results,  \* main_menu local, line 245
  ranked_list,     \* main_menu local, lines 236-246
  selection,       \* main_menu local, line 252
  selected_anime,  \* main_menu local, line 259
  play_choice,     \* main_menu local, line 263
  console,         \* what the most recent step printed
  launched,        \* argv of the subprocesses the most recent step ran
  posted,          \* every request handed to requests.post so far, in order
  response,        \* outcome of the most recent requests.post (environment)
  searches,        \* how many times option 4 has been selected
  uncaught         \* the exception that left main_menu, if any: [site, exc]

vars ==
  <<today, pc, trending_anime, seasonal_anime, choice, search_results, ranked_list,
    selection, selected_anime, play_choice, console, launched, posted, response,
    searches, uncaught>>

-----------------------------------------------------------------------------
(* Bounds of the model.                                                    *)

\* longest media list the service returns in the model (the code asks for 10)
MaxList == 2
\* how many times option 4 may be selected in one run
MaxSearches == 1
\* the run happens in FixedYear .. FixedYear + YearSpan
YearSpan == 1

-----------------------------------------------------------------------------
(* Python values.                                                          *)

PyNone == [t |-> "None"]
PyInt(n) == [t |-> "int", v |-> n]
PyStr(s) == [t |-> "str", v |-> s]
PyList(s) == [t |-> "list", v |-> s]
PyDict(f) == [t |-> "dict", v |-> f]
\* a local that no assignment has bound yet, or that is dead at the loop head
Unbound == [t |-> "unbound"]

Ok(v) == [exc |-> "", val |-> v]
Raise(e) == [exc |-> e, val |-> PyNone]

\* bool(x)
Truthy(x) ==
  CASE x.t = "None" -> FALSE
    [] x.t = "int" -> x.v # 0
    [] x.t = "str" -> x.v # ""
    [] x.t = "list" -> x.v # <<>>
    [] x.t = "dict" -> DOMAIN x.v # {}
    [] OTHER -> FALSE

\* x[k] for a string key k
Subscript(x, k) ==
  IF x.t = "dict"
    THEN IF k \in DOMAIN x.v THEN Ok(x.v[k]) ELSE Raise("KeyError")
    ELSE Raise("TypeError")

\* x.get(k, default)
Get(x, k, default) ==
  IF x.t = "dict"
    THEN Ok(IF k \in DOMAIN x.v THEN x.v[k] ELSE default)
    ELSE Raise("AttributeError")

\* k in x, for a string k
Contains(k, x) ==
  CASE x.t = "dict" -> [exc |-> "", val |-> k \in DOMAIN x.v]
    [] x.t = "list" -> [exc |-> "", val |-> \E i \in DOMAIN x.v : x.v[i] = PyStr(k)]
    [] OTHER -> [exc |-> "TypeError", val |-> FALSE]

\* str(x) and the f-string conversion {x}
Format(x) ==
  CASE x.t = "None" -> "None"
    [] x.t = "int" -> ToString(x.v)
    [] x.t = "str" -> x.v
    [] x.t = "list" -> "[...]"
    [] OTHER -> "{...}"

\* the f-string conversion {x:02d}
Format02d(x) ==
  IF x.t = "int"
    THEN Ok(PyStr(IF x.v >= 0 /\ x.v < 10 THEN "0" \o ToString(x.v) ELSE ToString(x.v)))
    ELSE IF x.t = "str" THEN Raise("ValueError") ELSE Raise("TypeError")

\* s.replace(old, "")
RECURSIVE Replace(_, _)
Replace(s, old) ==
  IF Len(s) < Len(old) THEN s
  ELSE IF SubSeq(s, 1, Len(old)) = old
    THEN Replace(SubSeq(s, Len(old) + 1, Len(s)), old)
    ELSE SubSeq(s, 1, 1) \o Replace(SubSeq(s, 2, Len(s)), old)

\* sep.join(parts), parts a sequence of str values
RECURSIVE Join(_, _)
Join(sep, parts) ==
  IF parts = <<>> THEN ""
  ELSE IF Len(parts) = 1 THEN parts[1].v
  ELSE parts[1].v \o sep \o Join(sep, Tail(parts))

\* int(s) for the decimal strings the rank prompt accepts
ParseInt(s) == CHOOSE i \in 0..(MaxList + 1) : ToString(i) = s

\* one console.print of a string, by the function that printed it
Text(by, s) == [kind |-> "text", by |-> by, text |-> s]

-----------------------------------------------------------------------------
(* Module-level constants of main.py.                                      *)

API_URL == "https://graphql.anilist.co"
\* "page": 1 and "perPage": 10 of every request
PageIndex == 1
PageSize == 10
\* description[:500]
DescriptionLimit == 500
\* datetime(2025, 4, 5)
FixedYear == 2025
FixedMonth == 4
FixedDay == 5

-----------------------------------------------------------------------------
(* Season Resolver.                                                        *)

\* the if/elif chain of get_current_season_and_year
SeasonOfMonth(month) ==
  IF 1 <= month /\ month <= 3 THEN "WINTER"
  ELSE IF 4 <= month /\ month <= 6 THEN "SPRING"
  ELSE IF 7 <= month /\ month <= 9 THEN "SUMMER"
  ELSE "FALL"

\* current_date is the literal datetime(2025, 4, 5): the clock is never read
get_current_season_and_year ==
  LET current_date == [year |-> FixedYear, month |-> FixedMonth, day |-> FixedDay]
      month == current_date.month
  IN  <<SeasonOfMonth(month), current_date.year>>

-----------------------------------------------------------------------------
(* The remote service: what one requests.post can come back with.          *)

\* the media objects the three queries can return
Media(id, english, romaji, episodes) ==
  PyDict([id |-> PyInt(id),
          title |-> PyDict([english |-> english, romaji |-> PyStr(romaji)]),
          episodes |-> episodes,
          popularity |-> PyInt(100 * id),
          status |-> PyStr("RELEASING")])

\* the search query also asks for description, genres and startDate
Detailed(id, english, romaji, episodes, description, genres, startDate) ==
  PyDict([id |-> PyInt(id),
          title |-> PyDict([english |-> english, romaji |-> PyStr(romaji)]),
          episodes |-> episodes,
          popularity |-> PyInt(100 * id),
          status |-> PyStr("FINISHED"),
          description |-> description,
          genres |-> genres,
          startDate |-> startDate])

StartDate(year, month, day) == PyDict([year |-> year, month |-> month, day |-> day])

TrendingMedia ==
  { Media(1, PyStr("Frieren"), "Sousou no Frieren", PyInt(28)),
    \* still airing: no English title yet, episode count not known
    Media(2, PyNone, "One Piece", PyNone) }

SeasonalMedia ==
  { \* an empty English title, and no "episodes" key at all
    PyDict([id |-> PyInt(3),
            title |-> PyDict([english |-> PyStr(""), romaji |-> PyStr("Dandadan")]),
            popularity |-> PyInt(300),
            status |-> PyStr("RELEASING")]) }

SearchMedia ==
  { Detailed(5, PyStr("Naruto"), "NARUTO", PyInt(220),
             PyStr("A <i>ninja</i> story.<br>"),
             PyList(<<PyStr("Action"), PyStr("Adventure")>>),
             StartDate(PyInt(2002), PyInt(10), PyInt(3))),
    Detailed(6, PyNone, "Boruto", PyNone,
             PyStr("Plain text."), PyNone, StartDate(PyNone, PyNone, PyNone)),
    Detailed(7, PyStr(""), "Road to Ninja", PyInt(1),
             PyNone, PyList(<<>>), StartDate(PyInt(2012), PyInt(7), PyInt(28))) }

\* the lists of at most MaxList media objects
Lists(media) == UNION { [1..n -> media] : n \in 0..MaxList }

Body(media) == PyDict([data |-> PyDict([Page |-> PyDict([media |-> media])])])

\* JSON bodies of a 2xx response
Bodies(media) ==
  { Body(PyList(l)) : l \in Lists(media) }
  \cup { Body(PyNone),
         PyDict([data |-> PyDict([Page |-> PyNone])]),
         PyDict([data |-> PyNone]),
         PyDict([status |-> PyInt(200)]),
         PyDict([errors |-> PyList(<<PyStr("Too Many Requests.")>>), data |-> PyNone]) }

\* outcomes of requests.post: it raises, or it returns a status and a body
Responses(media) ==
  { [raises |-> e, status |-> 0, body |-> PyNone] : e \in {"ConnectionError", "Timeout"} }
  \cup { [raises |-> "", status |-> st, body |-> PyNone] : st \in {404, 500} }
  \cup { [raises |-> "", status |-> 200, body |-> b] : b \in Bodies(media) }

-----------------------------------------------------------------------------
(* Metadata Client.                                                        *)

\* the body the three fetch functions share; resp is what requests.post does
fetch(query, variables, prefix, resp) ==
  LET request == [url |-> API_URL, query |-> query, variables |-> variables]
      returns(v, lines) == [exc |-> "", ret |-> v, out |-> lines, request |-> request]
      raises(e) == [exc |-> e, ret |-> PyNone, out |-> <<>>, request |-> request]
      data == resp.body
      hasErrors == Contains("errors", data)
      d1 == Subscript(data, "data")
      d2 == Subscript(d1.val, "Page")
      d3 == Subscript(d2.val, "media")
  IN  IF resp.raises # ""
        THEN returns(PyList(<<>>), <<Text("fetch", prefix \o resp.raises)>>)
      ELSE IF 400 <= resp.status /\ resp.status < 600
        THEN returns(PyList(<<>>), <<Text("fetch", prefix \o "HTTPError")>>)
      ELSE IF hasErrors.exc # "" THEN raises(hasErrors.exc)
      ELSE IF hasErrors.val
        THEN returns(PyList(<<>>), <<Text("fetch", "GraphQL Error: " \o Format(data.v["errors"]))>>)
      ELSE IF d1.exc # "" THEN raises(d1.exc)
      ELSE IF d2.exc # "" THEN raises(d2.exc)
      ELSE IF d3.exc # "" THEN raises(d3.exc)
      ELSE returns(d3.val, <<>>)

fetch_trending_anime(resp) ==
  fetch("TRENDING_QUERY", [page |-> PageIndex, perPage |-> PageSize],
        "Error fetching data: ", resp)

fetch_seasonal_anime(resp) ==
  LET season == get_current_season_and_year[1]
      year == get_current_season_and_year[2]
  IN  fetch("SEASONAL_QUERY",
            [page |-> PageIndex, perPage |-> PageSize, season |-> season, seasonYear |-> year],
            "Error fetching data: ", resp)

fetch_search_results(search_term, resp) ==
  fetch("SEARCH_QUERY", [search |-> search_term, page |-> PageIndex, perPage |-> PageSize],
        "Error fetching search data: ", resp)

-----------------------------------------------------------------------------
(* Presentation Layer.                                                     *)

\* DisplayName with the English title ignored
DisplayNameRomajiOnly(anime) ==
  LET title == Subscript(anime, "title")
  IN  IF title.exc # "" THEN title ELSE Subscript(title.val, "romaji")

\* anime["title"]["english"] if anime["title"]["english"] else anime["title"]["romaji"]
DisplayName(anime) ==
  LET title == Subscript(anime, "title")
      english == Subscript(title.val, "english")
  IN  IF title.exc # "" THEN title
      ELSE IF english.exc # "" THEN english
      ELSE IF Truthy(english.val) THEN english
      ELSE Subscript(title.val, "romaji")

\* one pass of the loop body of display_anime_list
RankedEntry(rank, anime) ==
  LET name == DisplayName(anime)
      episodes == Get(anime, "episodes", PyStr("N/A"))
      popularity == Get(anime, "popularity", PyInt(0))
  IN  IF name.exc # "" THEN [exc |-> name.exc]
      ELSE IF episodes.exc # "" THEN [exc |-> episodes.exc]
      ELSE [exc |-> "",
            row |-> [rank |-> ToString(rank), name |-> name.val,
                     episodes |-> Format(episodes.val),
                     popularity |-> Format(popularity.val)],
            item |-> <<rank, name.val, anime>>]

\* display_anime_list with enumerate(anime_list) left at its default start of 0
display_anime_list_FromZero(anime_list, title) ==
  IF ~Truthy(anime_list)
    THEN [exc |-> "", ret |-> <<>>,
          out |-> <<Text("display_anime_list", "No data available for " \o title \o ".")>>]
    ELSE LET n == Len(anime_list.v)
             entry == [i \in 1..n |-> RankedEntry(i - 1, anime_list.v[i])]
         IN  [exc |-> "",
              ret |-> [i \in 1..n |-> entry[i].item],
              out |-> <<[kind |-> "table", by |-> "display_anime_list", title |-> title,
                         rows |-> [i \in 1..n |-> entry[i].row]]>>]

\* display_anime_list ranking the records in the reverse of the input order
display_anime_list_Reordered(anime_list, title) ==
  IF ~Truthy(anime_list)
    THEN [exc |-> "", ret |-> <<>>,
          out |-> <<Text("display_anime_list", "No data available for " \o title \o ".")>>]
    ELSE LET n == Len(anime_list.v)
             entry == [i \in 1..n |-> RankedEntry(i, anime_list.v[n + 1 - i])]
         IN  [exc |-> "",
              ret |-> [i \in 1..n |-> entry[i].item],
              out |-> <<[kind |-> "table", by |-> "display_anime_list", title |-> title,
                         rows |-> [i \in 1..n |-> entry[i].row]]>>]

\* returns [exc, ret, out]; ret is the ranked list, a sequence of <<rank, name, anime>>
display_anime_list(anime_list, title) ==
  IF ~Truthy(anime_list)
    THEN [exc |-> "", ret |-> <<>>,
          out |-> <<Text("display_anime_list", "No data available for " \o title \o ".")>>]
    ELSE LET n == Len(anime_list.v)
             entry == [i \in 1..n |-> RankedEntry(i, anime_list.v[i])]
             bad == { i \in 1..n : entry[i].exc # "" }
         IN  IF bad # {}
               THEN [exc |-> entry[CHOOSE i \in bad : \A j \in bad : i <= j].exc,
                     ret |-> <<>>, out |-> <<>>]
               ELSE [exc |-> "",
                     ret |-> [i \in 1..n |-> entry[i].item],
                     out |-> <<[kind |-> "table", by |-> "display_anime_list", title |-> title,
                                rows |-> [i \in 1..n |-> entry[i].row]]>>]

\* the value of description after lines 189-191
StrippedDescription(anime) ==
  LET description == Get(anime, "description", PyStr("No description available."))
  IN  IF description.exc # "" THEN description
      ELSE IF Truthy(description.val)
              /\ description.val # PyStr("No description available.")
        THEN IF description.val.t = "str"
               THEN Ok(PyStr(Replace(Replace(Replace(description.val.v, "<br>"), "<i>"), "</i>")))
               ELSE Raise("AttributeError")
        ELSE description

\* ", ".join(anime.get("genres", [])) if anime.get("genres") else "N/A"
GenresText(anime) ==
  LET genres == Get(anime, "genres", PyList(<<>>))
  IN  IF genres.exc # "" THEN genres
      ELSE IF Truthy(genres.val)
        THEN IF genres.val.t = "list" THEN Ok(PyStr(Join(", ", genres.val.v)))
             ELSE Raise("TypeError")
        ELSE Ok(PyStr("N/A"))

\* the conditional expression of lines 195-199
StartDateText(anime) ==
  LET startDate == Get(anime, "startDate", PyDict(<<>>))
      cond == Get(startDate.val, "year", PyNone)
      sd == Subscript(anime, "startDate")
      year == Subscript(sd.val, "year")
      month == Subscript(sd.val, "month")
      day == Subscript(sd.val, "day")
      mm == Format02d(month.val)
      dd == Format02d(day.val)
  IN  IF startDate.exc # "" THEN startDate
      ELSE IF cond.exc # "" THEN cond
      ELSE IF ~Truthy(cond.val) THEN Ok(PyStr("N/A"))
      ELSE IF sd.exc # "" THEN sd
      ELSE IF year.exc # "" THEN year
      ELSE IF month.exc # "" THEN month
      ELSE IF mm.exc # "" THEN mm
      ELSE IF day.exc # "" THEN day
      ELSE IF dd.exc # "" THEN dd
      ELSE Ok(PyStr(Format(year.val) \o "-" \o mm.val.v \o "-" \o dd.val.v))

\* {description[:500]}{'...' if len(description) > 500 else ''}
DescriptionText(description) ==
  IF description.t = "str"
    THEN Ok(PyStr(IF Len(description.v) > DescriptionLimit
                    THEN SubSeq(description.v, 1, DescriptionLimit) \o "..."
                    ELSE description.v))
    ELSE Raise("TypeError")

\* returns [exc, out]: out is what was printed before it returned or raised
display_anime_details(anime) ==
  LET by == "display_anime_details"
      name == DisplayName(anime)
      episodes == Get(anime, "episodes", PyStr("N/A"))
      popularity == Get(anime, "popularity", PyInt(0))
      status == Get(anime, "status", PyStr("N/A"))
      description == StrippedDescription(anime)
      genres == GenresText(anime)
      start_date == StartDateText(anime)
      last == DescriptionText(description.val)
      head == << Text(by, "=== Details for '" \o Format(name.val) \o "' ==="),
                 Text(by, "Episodes: " \o Format(episodes.val)),
                 Text(by, "Popularity: " \o Format(popularity.val)),
                 Text(by, "Status: " \o Format(status.val)),
                 Text(by, "Genres: " \o genres.val.v),
                 Text(by, "Start Date: " \o start_date.val.v) >>
  IN  IF name.exc # "" THEN [exc |-> name.exc, out |-> <<>>]
      ELSE IF episodes.exc # "" THEN [exc |-> episodes.exc, out |-> <<>>]
      ELSE IF description.exc # "" THEN [exc |-> description.exc, out |-> <<>>]
      ELSE IF genres.exc # "" THEN [exc |-> genres.exc, out |-> <<>>]
      ELSE IF start_date.exc # "" THEN [exc |-> start_date.exc, out |-> <<>>]
      ELSE IF last.exc # "" THEN [exc |-> last.exc, out |-> head]
      ELSE [exc |-> "", out |-> Append(head, Text(by, "Description: " \o last.val.v))]

-----------------------------------------------------------------------------
(* Playback Launcher.                                                      *)

\* how subprocess.run(["ani-cli", title], check=True) can end
PlayOutcomes == {"exit 0", "CalledProcessError", "FileNotFoundError"}

\* returns [exc, out, ran]: ran is the argv handed to subprocess.run
play_with_ani_cli(anime_title, outcome) ==
  LET by == "play_with_ani_cli"
      launching == Text(by, "Launching ani-cli for '" \o Format(anime_title) \o "'...")
      argv == <<PyStr("ani-cli"), anime_title>>
  IN  IF anime_title.t # "str"
        THEN [exc |-> "TypeError", out |-> <<launching>>, ran |-> <<argv>>]
      ELSE IF outcome = "CalledProcessError"
        THEN [exc |-> "", ran |-> <<argv>>,
              out |-> <<launching, Text(by, "Error running ani-cli: CalledProcessError")>>]
      ELSE IF outcome = "FileNotFoundError"
        THEN [exc |-> "", ran |-> <<argv>>,
              out |-> <<launching,
                        Text(by, "ani-cli not found. Please ensure it is installed and in your PATH.")>>]
      ELSE [exc |-> "", ran |-> <<argv>>, out |-> <<launching>>]

-----------------------------------------------------------------------------
(* Menu Controller: main_menu.                                             *)

\* the dates a run can happen on
Dates == [year : FixedYear..(FixedYear + YearSpan), month : 1..12]

\* nothing but the season resolver could depend on the date: the controller is
\* explored on one date, the startup on all of them (SpecSeason)
RunDate == [year |-> FixedYear + YearSpan, month |-> 11]

\* what the user can type at the search prompt
Terms == {"naruto"}

NoResponse == [raises |-> "", status |-> 0, body |-> PyNone]
NoException == [site |-> "", exc |-> ""]

\* lines 227-232, printed each time the loop reaches the prompt of line 234
MenuLines ==
  << Text("main_menu", "=== Trending Anime Menu ==="),
     Text("main_menu", "1. Top 10 Anime Today"),
     Text("main_menu", "2. Top 10 Anime This Week"),
     Text("main_menu", "3. Top 10 Anime This Month"),
     Text("main_menu", "4. Search Anime"),
     Text("main_menu", "5. Exit") >>

NoteLine ==
  Text("main_menu", "Note: 'Today' and 'This Week' show currently airing anime by trending activity. 'This Month' shows popular anime from the current season.")

\* an exception nothing catches leaves main_menu and ends the process
Crash(site, exc, printed) ==
  /\ pc' = "Crashed"
  /\ uncaught' = [site |-> site, exc |-> exc]
  /\ console' = printed

StartOn(dates) ==
  /\ today \in dates
  /\ pc = "FetchTrending"
  /\ trending_anime = Unbound
  /\ seasonal_anime = Unbound
  /\ choice = ""
  /\ search_results = Unbound
  /\ ranked_list = <<>>
  /\ selection = ""
  /\ selected_anime = <<>>
  /\ play_choice = ""
  /\ console = <<Text("__main__",
                      "Welcome to the Trending Anime Console App (Powered by AniList)!")>>
  /\ launched = <<>>
  /\ posted = <<>>
  /\ response = NoResponse
  /\ searches = 0
  /\ uncaught = NoException

Init == StartOn({RunDate})

InitSeason == StartOn(Dates)

\* line 221
FetchTrending ==
  /\ pc = "FetchTrending"
  /\ \E resp \in Responses(TrendingMedia) :
       LET f == fetch_trending_anime(resp)
       IN  /\ response' = resp
           /\ posted' = Append(posted, f.request)
           /\ IF f.exc # ""
                THEN /\ Crash("fetch_trending_anime", f.exc, f.out)
                     /\ UNCHANGED trending_anime
                ELSE /\ trending_anime' = f.ret
                     /\ pc' = "FetchSeasonal"
                     /\ console' = f.out
                     /\ UNCHANGED uncaught
  /\ UNCHANGED <<today, seasonal_anime, choice, search_results, ranked_list, selection,
                 selected_anime, play_choice, launched, searches>>

\* lines 222-232: the second startup fetch, the note and the first menu
FetchSeasonal ==
  /\ pc = "FetchSeasonal"
  /\ \E resp \in Responses(SeasonalMedia) :
       LET f == fetch_seasonal_anime(resp)
       IN  /\ response' = resp
           /\ posted' = Append(posted, f.request)
           /\ IF f.exc # ""
                THEN /\ Crash("fetch_seasonal_anime", f.exc, f.out)
                     /\ UNCHANGED seasonal_anime
                ELSE /\ seasonal_anime' = f.ret
                     /\ pc' = "MainMenu"
                     /\ console' = f.out \o <<NoteLine>> \o MenuLines
                     /\ UNCHANGED uncaught
  /\ UNCHANGED <<today, trending_anime, choice, search_results, ranked_list, selection,
                 selected_anime, play_choice, launched, searches>>

\* Rendered without the reset of line 236: an empty result leaves the ranked list of
\* the previous iteration in place
RenderedKeepsStale(d, printed) ==
  LET kept == IF d.ret # <<>> THEN d.ret ELSE ranked_list
  IN  /\ ranked_list' = kept
      /\ UNCHANGED uncaught
      /\ IF kept # <<>>
           THEN /\ pc' = "ListDisplayed"
                /\ console' = printed \o d.out
           ELSE /\ pc' = "MainMenu"
                /\ console' = printed \o d.out \o MenuLines

\* lines 236 and 251-256 once display_anime_list has returned d: the ranked list is
\* rebound, and the rank prompt follows only when it is non-empty
Rendered(d, printed) ==
  IF d.exc # ""
    THEN /\ Crash("display_anime_list", d.exc, printed \o d.out)
         /\ ranked_list' = <<>>
    ELSE /\ ranked_list' = d.ret
         /\ UNCHANGED uncaught
         /\ IF d.ret # <<>>
              THEN /\ pc' = "ListDisplayed"
                   /\ console' = printed \o d.out
              ELSE /\ pc' = "MainMenu"
                   /\ console' = printed \o d.out \o MenuLines

\* the locals of the previous iteration are rebound before any read of them; their
\* stale values are dropped when the prompt of line 234 is answered
NewIteration ==
  /\ selection' = ""
  /\ selected_anime' = <<>>
  /\ play_choice' = ""
  /\ launched' = <<>>

ListTitle(c) ==
  CASE c = "1" -> "Top 10 Trending Anime - Day"
    [] c = "2" -> "Top 10 Trending Anime - Week"
    [] c = "3" -> "Top 10 Trending Anime - Month"

\* lines 234-242 and 251-256: options 1, 2 and 3
ChooseList ==
  /\ pc = "MainMenu"
  /\ \E c \in {"1", "2", "3"} :
       /\ choice' = c
       /\ Rendered(display_anime_list(IF c = "3" THEN seasonal_anime ELSE trending_anime,
                                      ListTitle(c)), <<>>)
  /\ NewIteration
  /\ search_results' = Unbound
  /\ response' = NoResponse
  /\ UNCHANGED <<today, trending_anime, seasonal_anime, posted, searches>>

\* lines 234, 243-246 and 251-256: option 4
ChooseSearch ==
  /\ pc = "MainMenu"
  /\ searches < MaxSearches
  /\ choice' = "4"
  /\ searches' = searches + 1
  /\ \E search_term \in Terms, resp \in Responses(SearchMedia) :
       LET f == fetch_search_results(search_term, resp)
       IN  /\ response' = resp
           /\ posted' = Append(posted, f.request)
           /\ IF f.exc # ""
                THEN /\ Crash("fetch_search_results", f.exc, f.out)
                     /\ ranked_list' = <<>>
                     /\ search_results' = Unbound
                ELSE /\ search_results' = f.ret
                     /\ Rendered(display_anime_list(f.ret,
                                   "Search Results for '" \o search_term \o "'"), f.out)
  /\ NewIteration
  /\ UNCHANGED <<today, trending_anime, seasonal_anime>>

\* lines 234 and 247-249: option 5
ChooseExit ==
  /\ pc = "MainMenu"
  /\ choice' = "5"
  /\ ranked_list' = <<>>
  /\ console' = <<Text("main_menu", "Goodbye!")>>
  /\ pc' = "Exited"
  /\ NewIteration
  /\ search_results' = Unbound
  /\ response' = NoResponse
  /\ UNCHANGED <<today, trending_anime, seasonal_anime, posted, searches, uncaught>>

\* choices=[str(i) for i in range(len(ranked_list) + 1)]
RankChoices == { ToString(i) : i \in 0..Len(ranked_list) }

\* lines 252-257 when the answer is "0"
SelectBack ==
  /\ pc = "ListDisplayed"
  /\ selection' = "0"
  /\ pc' = "MainMenu"
  /\ console' = MenuLines
  /\ UNCHANGED <<today, trending_anime, seasonal_anime, choice, search_results, ranked_list,
                 selected_anime, play_choice, launched, posted, response, searches, uncaught>>

\* next((item for item in ranked_list if item[0] == selected_rank), None); <<>> is None
FindRank(list, selected_rank) ==
  LET hits == { i \in 1..Len(list) : list[i][1] = selected_rank }
  IN  IF hits = {} THEN <<>> ELSE list[CHOOSE i \in hits : \A j \in hits : i <= j]

\* lines 252-262 when the answer is a rank
SelectRank ==
  /\ pc = "ListDisplayed"
  /\ \E s \in RankChoices \ {"0"} :
       LET selected_rank == ParseInt(s)
           found == FindRank(ranked_list, selected_rank)
           d == display_anime_details(found[3])
       IN  /\ selection' = s
           /\ selected_anime' = found
           /\ IF found = <<>>
                THEN /\ pc' = "MainMenu"
                     /\ console' = MenuLines
                     /\ UNCHANGED uncaught
                ELSE IF d.exc # ""
                  THEN Crash("display_anime_details", d.exc, d.out)
                  ELSE /\ pc' = "DetailDisplayed"
                       /\ console' = d.out
                       /\ UNCHANGED uncaught
  /\ UNCHANGED <<today, trending_anime, seasonal_anime, choice, search_results, ranked_list,
                 play_choice, launched, posted, response, searches>>

\* lines 263-268 when the answer is "n" (the default)
AnswerNo ==
  /\ pc = "DetailDisplayed"
  /\ play_choice' = "n"
  /\ pc' = "MainMenu"
  /\ console' = MenuLines
  /\ UNCHANGED <<today, trending_anime, seasonal_anime, choice, search_results, ranked_list,
                 selection, selected_anime, launched, posted, response, searches, uncaught>>

\* lines 263-270 when the answer is "y"
AnswerYes ==
  /\ pc = "DetailDisplayed"
  /\ play_choice' = "y"
  /\ \E outcome \in PlayOutcomes :
       LET anime_title == selected_anime[2]
           p == play_with_ani_cli(anime_title, outcome)
       IN  /\ launched' = p.ran
           /\ IF p.exc # ""
                THEN Crash("play_with_ani_cli", p.exc, p.out)
                ELSE /\ pc' = "MainMenu"
                     /\ console' = p.out \o MenuLines
                     /\ UNCHANGED uncaught
  /\ UNCHANGED <<today, trending_anime, seasonal_anime, choice, search_results, ranked_list,
                 selection, selected_anime, posted, response, searches>>

Next ==
  \/ FetchTrending
  \/ FetchSeasonal
  \/ ChooseList
  \/ ChooseSearch
  \/ ChooseExit
  \/ SelectBack
  \/ SelectRank
  \/ AnswerNo
  \/ AnswerYes

Spec == Init /\ [][Next]_vars

\* the startup of main_menu alone (lines 221-222), on every date
NextSeason ==
  \/ FetchTrending
  \/ FetchSeasonal

SpecSeason == InitSeason /\ [][NextSeason]_vars

-----------------------------------------------------------------------------
(* Properties.                                                             *)

\* the list handed to display_anime_list in the current iteration
ChosenList ==
  IF choice = "3" THEN seasonal_anime
  ELSE IF choice = "4" THEN search_results
  ELSE trending_anime

ListChoices == {"1", "2", "3", "4"}

\* how many records a Python value holds when it is rendered as a list
Count(list) == IF list.t = "list" THEN Len(list.v) ELSE 0

Printed(by) == { i \in DOMAIN console : console[i].by = by }

FetchSites == {"fetch_trending_anime", "fetch_seasonal_anime", "fetch_search_results"}

\* the most recent network call failed: transport error, non-2xx, or an errors body
FailedCall ==
  \/ response.raises # ""
  \/ response.status >= 400
  \/ (response.status = 200 /\ response.body.t = "dict"
        /\ "errors" \in DOMAIN response.body.v)

\* the value the most recent fetch handed back to main_menu
LastFetched ==
  IF pc = "FetchSeasonal" THEN trending_anime
  ELSE IF choice = "4" THEN search_results
  ELSE seasonal_anime

\* C1: whatever the network call does, the three fetch functions never raise and
\* hand back a list; after a failed call the list is empty and a message was printed.
C1_FetchReturnsList ==
  /\ uncaught.site \notin FetchSites
  /\ trending_anime.t \in {"unbound", "list"}
  /\ seasonal_anime.t \in {"unbound", "list"}
  /\ search_results.t \in {"unbound", "list"}
  /\ FailedCall => LastFetched = PyList(<<>>) /\ Printed("fetch") # {}

\* C2: display_anime_details never raises, whatever sub-fields of the record are
\* missing or null.
C2_DetailsNeverRaise == uncaught.site # "display_anime_details"

\* C3: main_menu is left only through option 5; no exception ends the process.
C3_OnlyExitEndsLoop ==
  \/ pc \in {"FetchTrending", "FetchSeasonal", "MainMenu", "ListDisplayed", "DetailDisplayed"}
  \/ pc = "Exited" /\ choice = "5" /\ uncaught = NoException

\* C4: the season and seasonYear variables of the seasonal request are the season
\* of the current month (1-3 WINTER, 4-6 SPRING, 7-9 SUMMER, 10-12 FALL) and the
\* current year.
C4_SeasonOfToday ==
  \A i \in DOMAIN posted :
    posted[i].query = "SEASONAL_QUERY" =>
      /\ posted[i].variables.season =
           (CASE today.month \in 1..3 -> "WINTER"
              [] today.month \in 4..6 -> "SPRING"
              [] today.month \in 7..9 -> "SUMMER"
              [] today.month \in 10..12 -> "FALL")
      /\ posted[i].variables.seasonYear = today.year

Calls(query) == { i \in DOMAIN posted : posted[i].query = query }

\* C5: once the startup is over the run has made exactly one trending and one
\* seasonal request, in that order, then one request per selection of option 4 and
\* none for options 1-3: 2 + searches requests in all, each for page 1 of size 10.
C5_NetworkCalls ==
  pc \notin {"FetchTrending", "FetchSeasonal"} =>
    /\ Calls("TRENDING_QUERY") = {1}
    /\ Calls("SEASONAL_QUERY") = {2}
    /\ Cardinality(Calls("SEARCH_QUERY")) = searches
    /\ Len(posted) = 2 + searches
    /\ \A i \in DOMAIN posted :
         posted[i].variables.page = 1 /\ posted[i].variables.perPage = 10

\* C6: answering "y" at the play prompt runs ani-cli exactly once, with the display
\* title (English if non-empty, else romaji) of the record at the selected rank of
\* the list rendered in this iteration; answering "n" runs nothing.
C6_PlaysSelectedTitle ==
  [][pc = "DetailDisplayed" =>
       LET k == CHOOSE r \in 1..Count(ChosenList) : ToString(r) = selection
           title == ChosenList.v[k].v["title"].v
           expected == IF title["english"] \notin {PyNone, PyStr("")}
                         THEN title["english"] ELSE title["romaji"]
       IN  /\ play_choice' = "y" => launched' = << <<PyStr("ani-cli"), expected>> >>
           /\ play_choice' = "n" => launched' = <<>>]_vars

C6_Witness ==
  /\ pc = "MainMenu"
  /\ choice = "1"
  /\ selection = "2"
  /\ play_choice = "y"
  /\ launched = << <<PyStr("ani-cli"), PyStr("One Piece")>> >>

\* C7: answering "0" at the rank prompt returns to the main menu with no detail view
\* and no playback, and no entry of a ranked list carries rank 0.
C7_ZeroGoesBack ==
  [][pc = "ListDisplayed" /\ selection' = "0" =>
       /\ pc' = "MainMenu"
       /\ launched' = <<>>
       /\ \A i \in DOMAIN console' : console'[i].by # "display_anime_details"
       /\ \A i \in DOMAIN ranked_list : ranked_list[i][1] # 0]_vars

C7_Witness ==
  /\ pc = "MainMenu"
  /\ selection = "0"
  /\ Len(ranked_list) = 2
  /\ launched = <<>>

\* C8: display_anime_list pairs rank i with the i-th record of its input, ranks
\* being exactly 1..N; for an empty input it returns nothing and prints the notice.
C8_RanksFollowInput ==
  (choice \in ListChoices /\ uncaught = NoException) =>
    /\ Len(ranked_list) = Count(ChosenList)
    /\ \A i \in DOMAIN ranked_list :
         ranked_list[i][1] = i /\ ranked_list[i][3] = ChosenList.v[i]
    /\ (Count(ChosenList) = 0 /\ pc = "MainMenu") =>
         \E i \in Printed("display_anime_list") : console[i].kind = "text"

C8_Witness ==
  /\ pc = "ListDisplayed"
  /\ choice = "4"
  /\ Len(ranked_list) = 2
  /\ ranked_list[1][3] # ranked_list[2][3]

\* C9: a record whose episode count is missing or null is shown with "N/A" for
\* episodes, in the table and in the detail view.
C9_EpisodesPlaceholder ==
  /\ pc = "ListDisplayed" =>
       \A i \in DOMAIN ranked_list, j \in DOMAIN console :
         LET anime == ranked_list[i][3]
         IN  (console[j].kind = "table"
                /\ ("episodes" \notin DOMAIN anime.v \/ anime.v["episodes"] = PyNone))
               => console[j].rows[i].episodes = "N/A"
  /\ pc = "DetailDisplayed" =>
       LET anime == selected_anime[3]
       IN  ("episodes" \notin DOMAIN anime.v \/ anime.v["episodes"] = PyNone)
             => console[2].text = "Episodes: N/A"

\* C10: when the list chosen at the main menu is empty the controller prints the
\* notice and is back at the main menu, with no rank prompt, detail view or
\* playback; a rank prompt is only ever about the list chosen in that iteration.
C10_EmptyListGoesBack ==
  [][(pc = "MainMenu" /\ choice' \in ListChoices /\ uncaught' = NoException) =>
       /\ Count(ChosenList') = 0 =>
            /\ pc' = "MainMenu"
            /\ ranked_list' = <<>>
            /\ launched' = <<>>
            /\ \E i \in DOMAIN console' :
                 console'[i].by = "display_anime_list" /\ console'[i].kind = "text"
            /\ \A i \in DOMAIN console' : console'[i].by # "display_anime_details"
       /\ pc' = "ListDisplayed" =>
            /\ Count(ChosenList') > 0
            /\ \A i \in DOMAIN ranked_list' :
                 \E j \in DOMAIN ChosenList'.v : ranked_list'[i][3] = ChosenList'.v[j]]_vars

C10_Witness ==
  /\ pc = "MainMenu"
  /\ choice = "4"
  /\ response.raises = "Timeout"
  /\ search_results = PyList(<<>>)
  /\ ranked_list = <<>>
  /\ Printed("display_anime_list") # {}

====
